---------------------------- MODULE Spec2Model ----------------------------
(***************************************************************************)
(* Model of python/ray/experimental/state/state_cli.py: the `list` and     *)
(* `summary` click command groups, their subcommands, and the output       *)
(* formatter (format_print / print_state_api_output).                      *)
(*                                                                         *)
(* Python values are records [t, v]: t is the Python type ("str", "int",   *)
(* "none", "dict", "list"), v the payload.  A dict is the sequence of its  *)
(* items [k, val] in iteration (insertion) order, keys distinct.           *)
(* Text written to standard output is a sequence of string pieces whose    *)
(* concatenation is the text; "\n" is a piece of its own.                  *)
(***************************************************************************)
EXTENDS Integers, Sequences, FiniteSets, TLC

\* ------------------------------------------------------------------ bounds
\* Total number of keys (at any nesting depth) in one returned collection.
MaxNodes == 2
\* Number of entries of a returned collection.
MaxLen == 2
\* Total number of keys (at any nesting depth) in a returned cluster summary.
MaxSummaryNodes == 3

\* ------------------------------------------------------- program constants
SepLen == 60
NumRetries == 20

\* --------------------------------------------------------- sample universes
Keys == {"a", "b"}
Ids == {"id1", "id2"}
None == [t |-> "none", v |-> 0]
Scalars == {[t |-> "str", v |-> "x"], [t |-> "int", v |-> 1], None}

Dict(items) == [t |-> "dict", v |-> items]
List(elems) == [t |-> "list", v |-> elems]

RECURSIVE MappingsOf(_, _, _)
\* The dicts with keys in keys \ used, at most n keys in total (nested ones
\* counted), as item sequences in every insertion order.
MappingsOf(n, keys, used) ==
    {<<>>} \cup
    UNION { UNION { UNION {
        { <<[k |-> k, val |-> v]>> \o rest :
            rest \in MappingsOf(n - i, keys, used \cup {k}) } :
        v \in (IF i = 1 THEN Scalars ELSE {}) \cup
              { Dict(d) : d \in MappingsOf(i - 1, Keys, {}) } } :
        i \in 1..n } : k \in keys \ used }

Records(n) == { Dict(d) : d \in MappingsOf(n, Keys, {}) }

RECURSIVE NodeCount(_)
NodeCount(d) ==
    LET RECURSIVE sum(_)
        sum(i) == IF i > Len(d.v) THEN 0
                  ELSE 1 + (IF d.v[i].val.t = "dict" THEN NodeCount(d.v[i].val) ELSE 0)
                         + sum(i + 1)
    IN sum(1)

RECURSIVE ListsOf(_, _)
\* Sequences of at most len records holding at most n keys together.
ListsOf(n, len) ==
    {<<>>} \cup
    IF len = 0 THEN {}
    ELSE UNION { { <<r>> \o rest : rest \in ListsOf(n - NodeCount(r), len - 1) } :
                 r \in Records(n) }

RECURSIVE IdMapsOf(_, _, _)
\* Id -> record dicts of at most len entries holding at most n keys together.
IdMapsOf(n, len, used) ==
    {<<>>} \cup
    IF len = 0 THEN {}
    ELSE UNION { UNION { { <<[k |-> id, val |-> r]>> \o rest :
                           rest \in IdMapsOf(n - NodeCount(r), len - 1, used \cup {id}) } :
                         r \in Records(n) } : id \in Ids \ used }

\* What a list_* function may return: a sequence of records or an
\* id -> record mapping.
StateCollections ==
    { List(l) : l \in ListsOf(MaxNodes, MaxLen) } \cup
    { Dict(m) : m \in IdMapsOf(MaxNodes, MaxLen, {}) }

\* What summary_cluster may return: a mapping.
Summaries == Records(MaxSummaryNodes)

\* ------------------------------------------------------------- formatter
\* str(v) of a scalar, as f-strings and print() render it.
Str(v) ==
    CASE v.t = "str" -> v.v
      [] v.t = "int" -> ToString(v.v)
      [] v.t = "none" -> "None"

Tabs(indentation) == [i \in 1..indentation |-> "\t"]

\* A bug: the recursive call is made with the caller's indentation.
NestedIndentation_Same(indentation) == indentation

\* The indentation of the recursive call.
NestedIndentation(indentation) == indentation + 1

RECURSIVE format_print(_, _)
format_print(data, indentation) ==
    LET RECURSIVE loop(_)
        loop(i) ==
            IF i > Len(data.v) THEN <<>>
            ELSE LET k == data.v[i].k
                     v == data.v[i].val
                 IN  Tabs(indentation) \o <<k, ":">> \o
                     (IF v.t = "dict"
                      THEN <<"\n">> \o format_print(v, NestedIndentation(indentation))
                      ELSE <<" ", Str(v), "\n">>) \o
                     loop(i + 1)
    IN loop(1)

\* A bug: range(59).
Separator_Short == [i \in 1..(SepLen - 1) |-> "-"] \o <<"\n">>

Separator == [i \in 1..SepLen |-> "-"] \o <<"\n">>

\* A bug: the value is printed as Python prints it, print(state_data).
JsonScalar_PyRepr(o) ==
    CASE o.t = "str" -> <<"'", o.v, "'">>
      [] o.t = "int" -> <<ToString(o.v)>>
      [] o.t = "none" -> <<"None">>

\* json.dumps of a string, an integer or None.
JsonScalar(o) ==
    CASE o.t = "str" -> <<"\"", o.v, "\"">>
      [] o.t = "int" -> <<ToString(o.v)>>
      [] o.t = "none" -> <<"null">>

RECURSIVE json_dumps(_)
json_dumps(o) ==
    LET RECURSIVE elems(_)
        elems(i) ==
            IF i > Len(o.v) THEN <<>>
            ELSE (IF i > 1 THEN <<", ">> ELSE <<>>) \o json_dumps(o.v[i]) \o elems(i + 1)
        RECURSIVE members(_)
        members(i) ==
            IF i > Len(o.v) THEN <<>>
            ELSE (IF i > 1 THEN <<", ">> ELSE <<>>) \o
                 <<"\"", o.v[i].k, "\"", ": ">> \o json_dumps(o.v[i].val) \o members(i + 1)
    IN CASE o.t = "list" -> <<"[">> \o elems(1) \o <<"]">>
         [] o.t = "dict" -> <<"{">> \o members(1) \o <<"}">>
         [] OTHER -> JsonScalar(o)

\* The `default` branch: one block per entry, a header line, the record's
\* dump and the separator.
DefaultBody(state_data, resource) ==
    LET RECURSIVE loop(_)
        loop(i) ==
            IF i > Len(state_data.v) THEN <<>>
            ELSE (IF state_data.t = "list"
                  THEN <<resource, " index: ", ToString(i - 1), "\n">> \o
                       format_print(state_data.v[i], 1)
                  ELSE <<"Id: ", state_data.v[i].k, "\n">> \o
                       format_print(state_data.v[i].val, 1)) \o
                 Separator \o loop(i + 1)
    IN loop(1)

Footer(state_data) ==
    <<"Total ", ToString(Len(state_data.v)), " entries retrieved.", "\n">>

EmptyNotice(state_data, resource) ==
    IF Len(state_data.v) = 0
    THEN <<"No ", resource, " in the cluster", "\n">>
    ELSE <<>>

\* A bug: the table branch falls back to the default rendering.
print_state_api_output_TableFallsBack(state_data, format, resource) ==
    LET notice == EmptyNotice(state_data, resource)
    IN  CASE format \in {"default", "table"} ->
               [out |-> notice \o DefaultBody(state_data, resource) \o Footer(state_data),
                exc |-> "None"]
          [] format = "json" ->
               [out |-> notice \o json_dumps(state_data) \o <<"\n">> \o Footer(state_data),
                exc |-> "None"]
          [] OTHER ->
               [out |-> notice, exc |-> "ValueError"]

\* A bug: the empty check returns after its notice.
print_state_api_output_EmptyReturns(state_data, format, resource) ==
    LET notice == EmptyNotice(state_data, resource)
    IN  IF Len(state_data.v) = 0 THEN [out |-> notice, exc |-> "None"]
        ELSE CASE format = "default" ->
               [out |-> DefaultBody(state_data, resource) \o Footer(state_data),
                exc |-> "None"]
          [] format = "json" ->
               [out |-> json_dumps(state_data) \o <<"\n">> \o Footer(state_data),
                exc |-> "None"]
          [] format = "table" ->
               [out |-> <<>>, exc |-> "NotImplementedError"]
          [] OTHER ->
               [out |-> <<>>, exc |-> "ValueError"]

\* The result of a call: what it wrote to standard output and the exception
\* it raised ("None" when it returned).
print_state_api_output(state_data, format, resource) ==
    LET notice == EmptyNotice(state_data, resource)
    IN  CASE format = "default" ->
               [out |-> notice \o DefaultBody(state_data, resource) \o Footer(state_data),
                exc |-> "None"]
          [] format = "json" ->
               [out |-> notice \o json_dumps(state_data) \o <<"\n">> \o Footer(state_data),
                exc |-> "None"]
          [] format = "table" ->
               [out |-> notice, exc |-> "NotImplementedError"]
          [] OTHER ->
               [out |-> notice, exc |-> "ValueError"]

\* ------------------------------------------------------------ command line
ListSubcommands ==
    {"actors", "placement_groups", "nodes", "jobs", "workers", "tasks",
     "objects", "runtime_envs"}

\* The list_* function a subcommand calls.
ListFn(sub) ==
    CASE sub = "actors" -> "list_actors"
      [] sub = "placement_groups" -> "list_placement_groups"
      [] sub = "nodes" -> "list_nodes"
      [] sub = "jobs" -> "list_jobs"
      [] sub = "workers" -> "list_workers"
      [] sub = "tasks" -> "list_tasks"
      [] sub = "objects" -> "list_objects"
      [] sub = "runtime_envs" -> "list_runtime_envs"

\* The resource name a subcommand hands to print_state_api_output.
Resource(sub) ==
    CASE sub = "actors" -> "actors"
      [] sub = "placement_groups" -> "placement groups"
      [] sub = "nodes" -> "nodes"
      [] sub = "jobs" -> "jobs"
      [] sub = "workers" -> "workers"
      [] sub = "tasks" -> "tasks"
      [] sub = "objects" -> "objects"
      [] sub = "runtime_envs" -> "runtime envs"

\* click.Choice(["default", "json", "table"])
FormatChoices == {"default", "json", "table"}

\* Values the user may type.
Formats == FormatChoices \cup {"bogus"}
Filters == {"default", "state=ALIVE"}

Invocations ==
    [group : {"list"}, sub : ListSubcommands, format : Formats, filter : Filters]
    \cup {[group |-> "summary", sub |-> "cluster", format |-> "", filter |-> ""]}

\* ------------------------------------------------------------- exceptions
NoExc == [type |-> "None", msg |-> ""]
ApiServerUrlError ==
    [type |-> "ValueError",
     msg |-> "Couldn't obtain the API server address from GCS."]
AssertError == [type |-> "AssertionError", msg |-> ""]
DecodeError == [type |-> "UnicodeDecodeError", msg |-> ""]
BadParameter == [type |-> "click.BadParameter", msg |-> "invalid choice"]
TableError ==
    [type |-> "NotImplementedError", msg |-> "Table formatter is not implemented yet."]
FormatError == [type |-> "ValueError", msg |-> "Unexpected format"]

\* What an external retrieval function may raise.
ExternalErrors ==
    {[type |-> "ConnectionError", msg |-> "network failure"],
     [type |-> "JSONDecodeError", msg |-> "malformed response"]}

FormatterExc(name) ==
    CASE name = "None" -> NoExc
      [] name = "NotImplementedError" -> TableError
      [] name = "ValueError" -> FormatError

\* --------------------------------------------------------- address lookup
\* Dashboard addresses registered in the key-value store, as bytes:
\* b"1:8", and a byte string that is not UTF-8.
KvValues == {<<49, 58, 56>>, <<49, 255>>}

\* The key becomes readable at attempt readyAt; the lookup makes num_retries
\* attempts and returns the bytes, or None when every attempt found nothing.
internal_kv_get_with_retry(readyAt, value, num_retries) ==
    IF readyAt <= num_retries
    THEN [done |-> TRUE, isNone |-> FALSE, bytes |-> value]
    ELSE [done |-> TRUE, isNone |-> TRUE, bytes |-> <<>>]

NotLookedUp == [done |-> FALSE, isNone |-> TRUE, bytes |-> <<>>]

Chr(b) ==
    CASE b = 49 -> "1"
      [] b = 56 -> "8"
      [] b = 58 -> ":"

\* bytes.decode(): UTF-8; a byte >= 128 that starts no valid sequence raises.
decode(b) ==
    IF \A i \in DOMAIN b : b[i] < 128
    THEN [ok |-> TRUE, s |-> [i \in DOMAIN b |-> Chr(b[i])]]
    ELSE [ok |-> FALSE, s |-> <<>>]

\* A bug: the scheme is left out.
Endpoint_NoScheme(decoded) == decoded

\* f"http://{api_server_url.decode()}"
Endpoint(decoded) == <<"http://">> \o decoded

NoCtx == [set |-> FALSE, api_server_url |-> <<>>]

\* A bug: the None check is missing and an empty address is used.
GroupBody_NoNoneCheck(r, gcs) ==
    IF ~gcs THEN [exc |-> AssertError, obj |-> NoCtx]
    ELSE IF ~decode(r.bytes).ok THEN [exc |-> DecodeError, obj |-> NoCtx]
    ELSE [exc |-> NoExc,
          obj |-> [set |-> TRUE, api_server_url |-> Endpoint(decode(r.bytes).s)]]

\* The body of a group callback after the lookup returned r; gcs is what
\* use_gcs_for_bootstrap() answers.  Gives the exception raised and ctx.obj.
GroupBody(r, gcs) ==
    IF r.isNone THEN [exc |-> ApiServerUrlError, obj |-> NoCtx]
    ELSE IF ~gcs THEN [exc |-> AssertError, obj |-> NoCtx]
    ELSE IF ~decode(r.bytes).ok THEN [exc |-> DecodeError, obj |-> NoCtx]
    ELSE [exc |-> NoExc,
          obj |-> [set |-> TRUE, api_server_url |-> Endpoint(decode(r.bytes).s)]]

\* ----------------------------------------------------------------- events
KvGetEvent == [ev |-> "kv_get", fn |-> "internal_kv_get_with_retry",
               url |-> <<>>, filter |-> ""]
CallEvent(fn, url, filter) == [ev |-> "call", fn |-> fn, url |-> url, filter |-> filter]
FormatEvent(fn) == [ev |-> "format", fn |-> fn, url |-> <<>>, filter |-> ""]

\* What an external retrieval function does when called: raises or returns.
Returned(value) == [raised |-> NoExc, value |-> value]
Raised(e) == [raised |-> e, value |-> None]
ListOutcomes == { Returned(c) : c \in StateCollections } \cup { Raised(e) : e \in ExternalErrors }
SummaryOutcomes == { Returned(c) : c \in Summaries } \cup { Raised(e) : e \in ExternalErrors }

\* A bug: an error of the list_* function is caught and rendered as an
\* empty result.
ListBody_Swallow(sub, obj, format, filter, outcome) ==
    LET call == CallEvent(ListFn(sub), obj.api_server_url, filter)
        data == IF outcome.raised # NoExc THEN List(<<>>) ELSE outcome.value
        res == print_state_api_output(data, format, Resource(sub))
    IN  [events |-> <<call, FormatEvent("print_state_api_output")>>,
         out |-> res.out, exc |-> FormatterExc(res.exc)]

\* A bug: the list_* function is called once for the data and once more for
\* the argument of the formatter.
ListBody_CallTwice(sub, obj, format, filter, outcome) ==
    LET call == CallEvent(ListFn(sub), obj.api_server_url, filter)
        res == print_state_api_output(outcome.value, format, Resource(sub))
    IN  IF outcome.raised # NoExc
        THEN [events |-> <<call>>, out |-> <<>>, exc |-> outcome.raised]
        ELSE [events |-> <<call, call, FormatEvent("print_state_api_output")>>,
              out |-> res.out, exc |-> FormatterExc(res.exc)]

\* The body of a list subcommand: read the url from ctx.obj, call the list_*
\* function once, hand what it returned to print_state_api_output.
ListBody(sub, obj, format, filter, outcome) ==
    LET call == CallEvent(ListFn(sub), obj.api_server_url, filter)
        res == print_state_api_output(outcome.value, format, Resource(sub))
    IN  IF outcome.raised # NoExc
        THEN [events |-> <<call>>, out |-> <<>>, exc |-> outcome.raised]
        ELSE [events |-> <<call, FormatEvent("print_state_api_output")>>,
              out |-> res.out, exc |-> FormatterExc(res.exc)]

\* The body of `summary cluster`.
ClusterBody(obj, outcome) ==
    LET call == CallEvent("summary_cluster", obj.api_server_url, "")
    IN  IF outcome.raised # NoExc
        THEN [events |-> <<call>>, out |-> <<>>, exc |-> outcome.raised]
        ELSE [events |-> <<call, FormatEvent("format_print")>>,
              out |-> format_print(outcome.value, 1), exc |-> NoExc]

\* A bug: --format declared as a plain string option.
OptionsOk_Unchecked(inv) == TRUE

\* click converts a subcommand's options when it builds the subcommand's
\* context, after the group callback has run.
OptionsOk(inv) == inv.group = "list" => inv.format \in FormatChoices

\* ------------------------------------------------------------------ state
VARIABLES
    argv,            \* the invocation: group, subcommand, --format, --filter
    pc,              \* "group", "parse", "invoke", "exit"
    api_server_url,  \* what the key-value lookup returned
    ctx_obj,         \* ctx.obj of the click context
    events,          \* the lookups, external calls and formatter calls made
    external,        \* what the external retrieval function did
    stdout,          \* what this layer printed
    exc              \* the exception that ended the command

vars == <<argv, pc, api_server_url, ctx_obj, events, external, stdout, exc>>

NotCalled == [raised |-> NoExc, value |-> None]

Init ==
    /\ argv \in Invocations
    /\ pc = "group"
    /\ api_server_url = NotLookedUp
    /\ ctx_obj = NoCtx
    /\ events = <<>>
    /\ external = NotCalled
    /\ stdout = <<>>
    /\ exc = NoExc

GroupCallback(group) ==
    /\ pc = "group"
    /\ argv.group = group
    /\ \E readyAt \in {1, NumRetries, NumRetries + 1}, value \in KvValues, gcs \in BOOLEAN :
         LET r == internal_kv_get_with_retry(readyAt, value, NumRetries)
             b == GroupBody(r, gcs)
         IN  /\ api_server_url' = r
             /\ events' = Append(events, KvGetEvent)
             /\ ctx_obj' = b.obj
             /\ exc' = b.exc
             /\ pc' = IF b.exc = NoExc THEN "parse" ELSE "exit"
    /\ UNCHANGED <<argv, external, stdout>>

list_state_cli_group == GroupCallback("list")

summary_state_cli_group == GroupCallback("summary")

ParseSubcommandArgs ==
    /\ pc = "parse"
    /\ IF OptionsOk(argv)
       THEN pc' = "invoke" /\ exc' = exc
       ELSE pc' = "exit" /\ exc' = BadParameter
    /\ UNCHANGED <<argv, api_server_url, ctx_obj, events, external, stdout>>

ListSubcommand(sub) ==
    /\ pc = "invoke"
    /\ argv.group = "list"
    /\ argv.sub = sub
    /\ \E outcome \in ListOutcomes :
         LET b == ListBody(sub, ctx_obj, argv.format, argv.filter, outcome)
         IN  /\ external' = outcome
             /\ events' = events \o b.events
             /\ stdout' = stdout \o b.out
             /\ exc' = b.exc
    /\ pc' = "exit"
    /\ UNCHANGED <<argv, api_server_url, ctx_obj>>

actors == ListSubcommand("actors")

placement_groups == ListSubcommand("placement_groups")

nodes == ListSubcommand("nodes")

jobs == ListSubcommand("jobs")

workers == ListSubcommand("workers")

tasks == ListSubcommand("tasks")

objects == ListSubcommand("objects")

runtime_envs == ListSubcommand("runtime_envs")

cluster ==
    /\ pc = "invoke"
    /\ argv.group = "summary"
    /\ argv.sub = "cluster"
    /\ \E outcome \in SummaryOutcomes :
         LET b == ClusterBody(ctx_obj, outcome)
         IN  /\ external' = outcome
             /\ events' = events \o b.events
             /\ stdout' = stdout \o b.out
             /\ exc' = b.exc
    /\ pc' = "exit"
    /\ UNCHANGED <<argv, api_server_url, ctx_obj>>

Next ==
    \/ list_state_cli_group
    \/ summary_state_cli_group
    \/ ParseSubcommandArgs
    \/ actors
    \/ placement_groups
    \/ nodes
    \/ jobs
    \/ workers
    \/ tasks
    \/ objects
    \/ runtime_envs
    \/ cluster

Spec == Init /\ [][Next]_vars

\* ------------------------------------------------------- reading the output
\* The positions of the newlines of a text.
Newlines(s) == SelectSeq([i \in 1..Len(s) |-> i], LAMBDA i : s[i] = "\n")

\* The lines of a text, without their newlines; text after the last newline
\* is a line too.
Lines(s) ==
    LET nl == Newlines(s)
        start(j) == IF j = 1 THEN 1 ELSE nl[j - 1] + 1
        full == [j \in 1..Len(nl) |-> SubSeq(s, start(j), nl[j] - 1)]
        tail == SubSeq(s, start(Len(nl) + 1), Len(s))
    IN  IF tail = <<>> THEN full ELSE Append(full, tail)

LastLine(s) == Lines(s)[Len(Lines(s))]

Digits == 0..9

JsonFail == [ok |-> FALSE, val |-> None, next |-> 0]

RECURSIVE JsonValue(_, _)
RECURSIVE JsonElements(_, _, _)
RECURSIVE JsonMembers(_, _, _)
\* A JSON value starting at piece i of s: the Python value it denotes and
\* the position after it.
JsonValue(s, i) ==
    IF i > Len(s) THEN JsonFail
    ELSE CASE s[i] = "null" -> [ok |-> TRUE, val |-> None, next |-> i + 1]
           [] s[i] = "\"" ->
                IF i + 2 <= Len(s) /\ s[i + 2] = "\"" /\ s[i + 1] # "\""
                THEN [ok |-> TRUE, val |-> [t |-> "str", v |-> s[i + 1]], next |-> i + 3]
                ELSE JsonFail
           [] s[i] = "[" ->
                IF i + 1 <= Len(s) /\ s[i + 1] = "]"
                THEN [ok |-> TRUE, val |-> List(<<>>), next |-> i + 2]
                ELSE JsonElements(s, i + 1, <<>>)
           [] s[i] = "{" ->
                IF i + 1 <= Len(s) /\ s[i + 1] = "}"
                THEN [ok |-> TRUE, val |-> Dict(<<>>), next |-> i + 2]
                ELSE JsonMembers(s, i + 1, <<>>)
           [] OTHER ->
                IF \E n \in Digits : ToString(n) = s[i]
                THEN [ok |-> TRUE,
                      val |-> [t |-> "int", v |-> CHOOSE n \in Digits : ToString(n) = s[i]],
                      next |-> i + 1]
                ELSE JsonFail

JsonElements(s, i, acc) ==
    LET e == JsonValue(s, i)
    IN  IF ~e.ok \/ e.next > Len(s) THEN JsonFail
        ELSE IF s[e.next] = "]"
             THEN [ok |-> TRUE, val |-> List(Append(acc, e.val)), next |-> e.next + 1]
        ELSE IF s[e.next] \in {",", ", "}
             THEN JsonElements(s, e.next + 1, Append(acc, e.val))
        ELSE JsonFail

JsonMembers(s, i, acc) ==
    IF ~(i + 3 <= Len(s) /\ s[i] = "\"" /\ s[i + 1] # "\"" /\ s[i + 2] = "\""
         /\ s[i + 3] \in {":", ": "})
    THEN JsonFail
    ELSE LET m == JsonValue(s, i + 4)
             items == Append(acc, [k |-> s[i + 1], val |-> m.val])
         IN  IF ~m.ok \/ m.next > Len(s) THEN JsonFail
             ELSE IF s[m.next] = "}"
                  THEN [ok |-> TRUE, val |-> Dict(items), next |-> m.next + 1]
             ELSE IF s[m.next] \in {",", ", "}
                  THEN JsonMembers(s, m.next + 1, items)
             ELSE JsonFail

\* A text is a JSON document when it is one JSON value, with nothing but
\* white space after it.
json_loads(s) ==
    LET r == JsonValue(s, 1)
    IN  IF r.ok /\ \A j \in r.next..Len(s) : s[j] \in {" ", "\n"}
        THEN [ok |-> TRUE, val |-> r.val]
        ELSE [ok |-> FALSE, val |-> None]

\* A line of the recursive dump, read back: the number of leading tabs, the
\* key, and the value printed inline after the colon, if any.
LeadingTabs(l) ==
    IF \A i \in DOMAIN l : l[i] = "\t" THEN Len(l)
    ELSE (CHOOSE i \in DOMAIN l : l[i] # "\t" /\ \A j \in 1..(i - 1) : l[j] = "\t") - 1

ReadDumpLine(l) ==
    LET d == LeadingTabs(l)
    IN  IF Len(l) = d + 2 /\ l[d + 2] = ":"
        THEN [ok |-> TRUE, tabs |-> d, key |-> l[d + 1], inline |-> FALSE, text |-> ""]
        ELSE IF Len(l) = d + 4 /\ l[d + 2] = ":" /\ l[d + 3] = " "
        THEN [ok |-> TRUE, tabs |-> d, key |-> l[d + 1], inline |-> TRUE, text |-> l[d + 4]]
        ELSE [ok |-> FALSE, tabs |-> d, key |-> "", inline |-> FALSE, text |-> ""]

RECURSIVE KeysInOrder(_, _)
\* The keys of a mapping in iteration order, each followed at once by the
\* keys of its value when that is a mapping, with their depths.
KeysInOrder(data, depth) ==
    LET RECURSIVE walk(_)
        walk(i) ==
            IF i > Len(data.v) THEN <<>>
            ELSE LET v == data.v[i].val
                 IN  (IF v.t = "dict"
                      THEN <<[ok |-> TRUE, tabs |-> depth, key |-> data.v[i].k,
                              inline |-> FALSE, text |-> ""]>>
                           \o KeysInOrder(v, depth + 1)
                      ELSE <<[ok |-> TRUE, tabs |-> depth, key |-> data.v[i].k,
                              inline |-> TRUE, text |-> Str(v)]>>)
                     \o walk(i + 1)
    IN walk(1)

IsDashes(l, n) == Len(l) = n /\ \A i \in DOMAIN l : l[i] = "-"

Count(ev) == Cardinality({ i \in DOMAIN events : events[i].ev = ev })

\* The formatter was entered with what the retrieval function returned.
FormatterCalled == Count("format") = 1

\* ------------------------------------------------------------------ claims

\* C1: when the key-value lookup of the dashboard address returned no value,
\* the command has ended with the "couldn't obtain the API server address"
\* error of the group callback, nothing was stored in ctx.obj, and no
\* list_* / summary_* function was called.
C1_LookupNoneFails ==
    (api_server_url.done /\ api_server_url.isNone) =>
        /\ pc = "exit"
        /\ exc = ApiServerUrlError
        /\ ~ctx_obj.set
        /\ Count("call") = 0
        /\ external = NotCalled

C1_Witness ==
    /\ argv.group = "list"
    /\ api_server_url.done
    /\ api_server_url.isNone
    /\ exc = ApiServerUrlError

\* C2 as stated: with a --format outside {default, json, table} the
\* key-value lookup is never made and no list_* function is called.
C2_Original ==
    (argv.group = "list" /\ argv.format \notin FormatChoices) =>
        (Count("kv_get") = 0 /\ Count("call") = 0)

\* C2 amended: with a --format outside {default, json, table} no list_*
\* function is called and nothing is printed; the subcommand is never
\* invoked; the rejection by argument parsing comes after the group
\* callback has made its one lookup and stored the endpoint.
C2_InvalidFormatRejected ==
    (argv.group = "list" /\ argv.format \notin FormatChoices) =>
        /\ pc # "invoke"
        /\ Count("call") = 0
        /\ Count("format") = 0
        /\ stdout = <<>>
        /\ (pc = "exit" => exc # NoExc)
        /\ (exc = BadParameter => (Count("kv_get") = 1 /\ ctx_obj.set))
        /\ ((pc = "exit" /\ ctx_obj.set) => exc = BadParameter)

C2_Witness ==
    /\ argv.format = "bogus"
    /\ pc = "exit"
    /\ exc = BadParameter
    /\ Count("kv_get") = 1

\* C3 as stated: a list subcommand that reaches the formatter with
\* --format table fails with NotImplementedError and the formatter has
\* printed nothing, whether the collection is empty or not.
C3_Original ==
    (argv.format = "table" /\ FormatterCalled) =>
        (exc = TableError /\ stdout = <<>>)

\* C3 amended: a list subcommand that reaches the formatter with --format
\* table fails with NotImplementedError; no record, separator or `Total`
\* footer is printed; the one line printed before the failure is
\* `No R in the cluster`, exactly when the collection is empty.
C3_TableNotImplemented ==
    (argv.format = "table" /\ FormatterCalled) =>
        /\ pc = "exit"
        /\ exc = TableError
        /\ \A i \in DOMAIN stdout : stdout[i] # "Total "
        /\ IF Len(external.value.v) = 0
           THEN Lines(stdout) = << <<"No ", Resource(argv.sub), " in the cluster">> >>
           ELSE stdout = <<>>

C3_Witness ==
    /\ argv.format = "table"
    /\ FormatterCalled
    /\ exc = TableError
    /\ Len(external.value.v) = 0
    /\ stdout # <<>>

\* C4: for an empty collection (sequence or mapping) and format default or
\* json, the first line printed is `No R in the cluster` and the last line
\* printed is `Total 0 entries retrieved.`.
C4_EmptyNoticeAndFooter ==
    (argv.format \in {"default", "json"} /\ FormatterCalled
        /\ Len(external.value.v) = 0) =>
        /\ exc = NoExc
        /\ Len(Lines(stdout)) >= 2
        /\ Lines(stdout)[1] = <<"No ", Resource(argv.sub), " in the cluster">>
        /\ LastLine(stdout) = <<"Total ", "0", " entries retrieved.">>

C4_Witness ==
    /\ argv.format = "json"
    /\ FormatterCalled
    /\ external.value = Dict(<<>>)
    /\ Len(Lines(stdout)) = 3

\* C5: for a mapping M and format default, the lines `Id: {key}` are
\* exactly len(M), one per key of M in M's order; each block (from its Id
\* line to the line before the next Id line or the footer) ends with a line
\* of exactly 60 dashes; the last line is `Total {len(M)} entries retrieved.`.
C5_DefaultMappingBlocks ==
    (argv.format = "default" /\ FormatterCalled /\ external.value.t = "dict") =>
        LET L == Lines(stdout)
            M == external.value.v
            idx == SelectSeq([i \in 1..Len(L) |-> i],
                             LAMBDA i : L[i] # <<>> /\ L[i][1] = "Id: ")
            blockEnd(j) == IF j < Len(idx) THEN idx[j + 1] - 1 ELSE Len(L) - 1
        IN  /\ Len(idx) = Len(M)
            /\ \A j \in DOMAIN idx : L[idx[j]] = <<"Id: ", M[j].k>>
            /\ \A j \in DOMAIN idx :
                   /\ blockEnd(j) > idx[j]
                   /\ IsDashes(L[blockEnd(j)], 60)
                   /\ \A q \in idx[j]..(blockEnd(j) - 1) : ~IsDashes(L[q], Len(L[q]))
            /\ (M # <<>> => idx[1] = 1)
            /\ L[Len(L)] = <<"Total ", ToString(Len(M)), " entries retrieved.">>

C5_Witness ==
    /\ argv.format = "default"
    /\ FormatterCalled
    /\ external.value.t = "dict"
    /\ Len(external.value.v) = 2
    /\ \E i \in DOMAIN stdout : stdout[i] = "\t"

\* C6 as stated: for a non-empty sequence S and format json, what
\* print_state_api_output printed is one valid JSON array, equal to S.
C6_Original ==
    (argv.format = "json" /\ FormatterCalled /\ external.value.t = "list"
        /\ Len(external.value.v) > 0) =>
        json_loads(stdout) = [ok |-> TRUE, val |-> external.value]

\* C6 amended: for a non-empty sequence S and format json, the first line
\* printed is one valid JSON array holding the records of S in S's order;
\* it is followed by the line `Total {len(S)} entries retrieved.`, so the
\* output as a whole is not a JSON document.
C6_JsonFirstLine ==
    (argv.format = "json" /\ FormatterCalled /\ external.value.t = "list"
        /\ Len(external.value.v) > 0) =>
        LET L == Lines(stdout)
        IN  /\ Len(L) = 2
            /\ json_loads(L[1]) = [ok |-> TRUE, val |-> external.value]
            /\ L[2] = <<"Total ", ToString(Len(external.value.v)), " entries retrieved.">>
            /\ ~json_loads(stdout).ok

C6_Witness ==
    /\ argv.format = "json"
    /\ FormatterCalled
    /\ external.value.t = "list"
    /\ Len(external.value.v) = 2
    /\ \E i \in 1..2 : \E j \in DOMAIN external.value.v[i].v :
           external.value.v[i].v[j].val.t = "dict"
    /\ exc = NoExc

\* C7: format_print prints one line per key, in iteration order; the line of
\* a key at depth d starts with exactly d tabs; the keys of a nested mapping
\* follow their parent's line at once, with one tab more; a scalar value is
\* on its key's line.
C7_FormatPrintIndentation ==
    (argv.group = "summary" /\ FormatterCalled) =>
        LET L == Lines(stdout)
        IN  /\ Len(L) = NodeCount(external.value)
            /\ [i \in 1..Len(L) |-> ReadDumpLine(L[i])] = KeysInOrder(external.value, 1)

C7_Witness ==
    /\ argv.group = "summary"
    /\ FormatterCalled
    /\ \E i \in DOMAIN Lines(stdout) : LeadingTabs(Lines(stdout)[i]) = 3

\* C8: when the external retrieval function raised, it was called exactly
\* once, the command ended with that same error, and the formatter was not
\* entered and printed nothing.
C8_ExternalErrorPropagates ==
    (external.raised # NoExc) =>
        /\ pc = "exit"
        /\ exc = external.raised
        /\ Count("call") = 1
        /\ Count("format") = 0
        /\ stdout = <<>>

C8_Witness ==
    /\ external.raised \in ExternalErrors
    /\ exc = external.raised
    /\ argv.group = "list"

\* C9: the events of an invocation are a prefix of: one key-value lookup,
\* one external call, one formatter call; the external call is made only
\* after a lookup that returned a value, the formatter is entered only after
\* the external call returned, and nothing is printed outside the formatter.
C9_EventOrder ==
    /\ \E n \in 0..3 : [i \in 1..Len(events) |-> events[i].ev]
                          = SubSeq(<<"kv_get", "call", "format">>, 1, n)
    /\ (Count("call") > 0 => (api_server_url.done /\ ~api_server_url.isNone /\ ctx_obj.set))
    /\ (Count("format") > 0 => external.raised = NoExc)
    /\ (stdout # <<>> => Count("format") = 1)

C9_Witness ==
    /\ Len(events) = 3
    /\ stdout # <<>>
    /\ pc = "exit"

\* C10: once stored, the endpoint is "http://" followed by the decoded bytes
\* the lookup returned; every external call was given the stored endpoint;
\* and no step changes the endpoint after it was stored.
C10_EndpointValue ==
    /\ ctx_obj.set =>
          /\ api_server_url.done
          /\ ~api_server_url.isNone
          /\ decode(api_server_url.bytes).ok
          /\ ctx_obj.api_server_url = <<"http://">> \o decode(api_server_url.bytes).s
    /\ \A i \in DOMAIN events :
          events[i].ev = "call" => (ctx_obj.set /\ events[i].url = ctx_obj.api_server_url)

C10_EndpointWriteOnce ==
    [](C10_EndpointValue) /\ [][ctx_obj.set => ctx_obj' = ctx_obj]_vars

C10_Witness ==
    /\ ctx_obj.set
    /\ \E i \in DOMAIN events :
          events[i].ev = "call" /\ events[i].url = <<"http://", "1", ":", "8">>

=============================================================================
